---- MODULE Spec2Model ----
(***************************************************************************)
(* A model of the Orange Carrier bot (src/bot.py): the record normalizer,  *)
(* the redirect resolver and login, the record fetcher, the seen_ids gate  *)
(* and the cdr_worker loop with its login backoff.                          *)
(*                                                                         *)
(* The module holds several specifications over one set of variables; a    *)
(* specification constrains the variables of its own part and keeps the    *)
(* others at their initial value.                                           *)
(*   SpecNorm     _normalize_cdr_row applied to pairs of raw rows           *)
(*   SpecDedup    the loop of cdr_worker over a fetch result (seen_ids)     *)
(*   SpecLogin    login: page, credential POST, _follow_redirect, verdict   *)
(*   SpecFetch    fetch_cdrs: structured endpoint, then the HTML fallback   *)
(*   SpecHtml     _parse_cdr_html on the response of the HTML fallback      *)
(*   SpecCycle    one cdr_worker task: what each pass hands on, in order    *)
(*   SpecAdmin    /addadmin and /removeadmin on admin_users                 *)
(*   Spec         cdr_worker's login/backoff loop beside /login and /cdrs   *)
(*   SpecLive     Spec with cdr_worker resumed whenever its await is over   *)
(***************************************************************************)
EXTENDS Integers, Sequences, FiniteSets, TLC

VARIABLES
    \* SpecNorm: two raw rows and what _normalize_cdr_row made of them
    rowA, rowB, recA, recB,
    \* SpecDedup: the process-wide seen set and each worker's loop position
    seen_ids, wpc, cdrs, handed, skipped,
    \* the ids of the records for which send_record_to_telegram returned False
    undelivered,
    \* the session's authenticated flag, and its HTTP client with the cookie
    \* jar it was created with (None before initialize)
    is_logged_in, client,
    \* SpecLogin: the position of one login call, the response _follow_redirect
    \* holds and its loop count, and what login extracted, classified, returned
    lpc, cur, hops, lastResp, followed, token, classified, login_result,
    \* the form data login posts
    payload,
    \* the clock datetime.now() reads, and the session's last_login_time
    now, last_login_time,
    \* SpecFetch: the position of one fetch_cdrs call, the structured response
    \* it got last, its results, and the requests and logins it has made
    fpc, api_resp, results, n_login, n_api, n_html,
    \* Spec: cdr_worker's locals, the position of the command handler that
    \* runs, and whether a login has succeeded since the worker last handled a
    \* failed one
    login_failures, backoff_time, cpc, ok_since_fail,
    \* Spec: whether cdr_worker's last fetch_cdrs returned [] because its
    \* re-login failed, no pass of the loop having begun since
    session_lost,
    \* SpecHtml: the final response of the request of CDR_PAGE and the records
    \* fetch_cdrs makes of it
    html_resp, html_records,
    \* SpecCycle: what the fetch of the worker's current pass returned, seen_ids
    \* as it was then, and the ids handed to send_record_to_telegram since
    fetched, seen0, attempts,
    \* SpecAdmin: the admin set, the configured owner (None without one) and
    \* the admin command handled last
    admin_users, OWNER_ID, last_cmd

normVars  == <<rowA, rowB, recA, recB>>
dedupVars == <<seen_ids, wpc, cdrs, handed, skipped, undelivered>>
loginVars == <<lpc, cur, hops, lastResp, followed, token, classified,
               login_result, payload, now, last_login_time>>
fetchVars == <<fpc, api_resp, results, n_login, n_api, n_html>>
workerVars ==
    <<login_failures, backoff_time, cpc, ok_since_fail, session_lost>>
htmlVars == <<html_resp, html_records>>
cycleVars == <<fetched, seen0, attempts>>
adminVars == <<admin_users, OWNER_ID, last_cmd>>
vars ==
    <<normVars, dedupVars, is_logged_in, client, loginVars, fetchVars,
      workerVars, htmlVars, cycleVars, adminVars>>

----------------------------------------------------------------------------
(* Python values as they appear in a decoded JSON row.                     *)

\* ORANGE_EMAIL, the configured account identifier
ORANGE_EMAIL == "a@x.com"

PyNone == [k |-> "null"]
PyStrV(s) == [k |-> "str", s |-> s]
PyIntV(n) == [k |-> "int", n |-> n]

Digit == <<"0", "1", "2", "3", "4", "5", "6", "7", "8", "9">>

RECURSIVE IntToStr(_)
IntToStr(n) ==
    IF n < 10 THEN Digit[n + 1]
    ELSE IntToStr(n \div 10) \o Digit[(n % 10) + 1]

\* str(v)
PyStr(v) ==
    CASE v.k = "str"  -> v.s
      [] v.k = "int"  -> IntToStr(v.n)
      [] v.k = "null" -> "None"

\* bool(v): what `or` tests
Truthy(v) ==
    CASE v.k = "str"  -> v.s # ""
      [] v.k = "int"  -> v.n # 0
      [] v.k = "null" -> FALSE

\* row.get(key)
DictGet(d, key) == IF key \in DOMAIN d THEN d[key] ELSE PyNone

\* row.get(k1) or row.get(k2) or ... or ""
RECURSIVE OrChain(_, _)
OrChain(d, keys) ==
    IF keys = <<>> THEN PyStrV("")
    ELSE IF Truthy(DictGet(d, Head(keys))) THEN DictGet(d, Head(keys))
    ELSE OrChain(d, Tail(keys))

CallerKeys   == <<"cli", "source", "caller", "from">>
CalleeKeys   == <<"to", "destination">>
TimeKeys     == <<"time", "timestamp", "start_time">>
DurationKeys == <<"duration">>
TypeKeys     == <<"type", "status">>

\* a raw row: list-shaped, map-shaped, or any other JSON value
ListRow(items) == [shape |-> "list", items |-> items]
DictRow(fields) == [shape |-> "dict", fields |-> fields]
OtherRow == [shape |-> "other"]

\* str(row[i]) if len(row) > i else ""
ListFieldNoneText(items, i) ==
    IF Len(items) > i THEN PyStr(items[i + 1]) ELSE "None"

ListField(items, i) == IF Len(items) > i THEN PyStr(items[i + 1]) ELSE ""

\* the separator of the id's f-string
IdSep == "_"

MakeId(account, cli, time_str) == account \o IdSep \o cli \o IdSep \o time_str

MakeRecordIdWithDuration(cli, to_num, time_str, duration, call_type) ==
    [id       |-> MakeId(ORANGE_EMAIL, cli, time_str) \o IdSep \o duration,
     cli      |-> cli,
     to       |-> to_num,
     time     |-> time_str,
     duration |-> duration,
     type     |-> call_type,
     account  |-> ORANGE_EMAIL]

MakeRecord(cli, to_num, time_str, duration, call_type) ==
    [id       |-> MakeId(ORANGE_EMAIL, cli, time_str),
     cli      |-> cli,
     to       |-> to_num,
     time     |-> time_str,
     duration |-> duration,
     type     |-> call_type,
     account  |-> ORANGE_EMAIL]

\* the list branch of _normalize_cdr_row
NormalizeList(items) ==
    MakeRecord(ListField(items, 0), ListField(items, 1), ListField(items, 2),
               ListField(items, 3), ListField(items, 4))

\* the dict branch of _normalize_cdr_row
NormalizeDict(d) ==
    MakeRecord(PyStr(OrChain(d, CallerKeys)), PyStr(OrChain(d, CalleeKeys)),
               PyStr(OrChain(d, TimeKeys)), PyStr(OrChain(d, DurationKeys)),
               PyStr(OrChain(d, TypeKeys)))

_normalize_cdr_row(row) ==
    CASE row.shape = "list" -> NormalizeList(row.items)
      [] row.shape = "dict" -> NormalizeDict(row.fields)
      [] OTHER -> PyNone

----------------------------------------------------------------------------
(* SpecNorm: _normalize_cdr_row on two raw rows drawn from bounded sets.   *)

MaxRowLen == 3
MaxKeys == 3

FieldValues == {PyStrV(""), PyStrV("+1555"), PyIntV(0), PyNone}
ModelKeys == {"cli", "from", "to", "time", "start_time"}

ListRows ==
    {ListRow(s) : s \in UNION {[1..n -> FieldValues] : n \in 0..MaxRowLen}}
DictRows ==
    {DictRow(f) : f \in UNION {[K -> FieldValues] :
                     K \in {S \in SUBSET ModelKeys : Cardinality(S) <= MaxKeys}}}

\* the key names _normalize_cdr_row accepts for the list positions 0..4
FieldKeys == <<CallerKeys, CalleeKeys, TimeKeys, DurationKeys, TypeKeys>>

SeqRange(q) == {q[i] : i \in 1..Len(q)}
MinOf(a, b) == IF a < b THEN a ELSE b

\* one accepted key name for each of the first n positions
RECURSIVE KeyChoices(_)
KeyChoices(n) ==
    IF n = 0 THEN {<<>>}
    ELSE {Append(c, k) : c \in KeyChoices(n - 1), k \in SeqRange(FieldKeys[n])}

\* the map-shaped rows that carry the field values of the list `items`, each
\* under one of the accepted key names of its field
EquivalentMaps(items) ==
    LET n == MinOf(Len(items), Len(FieldKeys)) IN
    {[k \in {ch[i] : i \in 1..n} |-> items[CHOOSE i \in 1..n : ch[i] = k]] :
        ch \in KeyChoices(n)}

Unset == [k |-> "unset"]

NormIdle ==
    /\ rowA = OtherRow /\ rowB = OtherRow
    /\ recA = Unset /\ recB = Unset

\* list-shaped rows that reach and pass position 4
MaxListLen == 6

LongValues == {PyStrV("+1555"), PyIntV(30)}
LongListRows ==
    {ListRow(q) : q \in UNION {[1..n -> LongValues] :
                                  n \in (MaxRowLen + 1)..MaxListLen}}

\* the rows that differ from the list `items` in the call duration only
DurationVariants(items) ==
    {ListRow([items EXCEPT ![4] = d]) : d \in LongValues \ {items[4]}}

\* list-shaped rows whose caller and time may hold the separator of the id
SepTexts == {"1", "1_2", "2_3", "3"}
SepRows ==
    {ListRow(<<PyStrV(c), PyStrV("+1777"), PyStrV(t)>>) :
        c \in SepTexts, t \in SepTexts}

\* the row of the normalization example
ExampleRow ==
    DictRow([cli |-> PyStrV("+1555"), to |-> PyStrV("+1777"),
             time |-> PyStrV("2024-01-01T10:00:00"), duration |-> PyIntV(30),
             type |-> PyStrV("answered")])

\* rowA is a list-shaped row and rowB a map-shaped row with the same field
\* values; or rowB is any map-shaped row of the bounded set or the example
\* row; or rowA is a longer list-shaped row and rowB one that differs in the
\* duration only, or a row of another shape; or both are list-shaped rows
\* with the separator in their fields
InitNorm ==
    /\ \/ /\ rowA \in ListRows
          /\ \E f \in EquivalentMaps(rowA.items) : rowB = DictRow(f)
       \/ /\ rowA = OtherRow
          /\ rowB \in DictRows \cup {ExampleRow}
       \/ /\ rowA \in LongListRows
          /\ rowB \in DurationVariants(rowA.items) \cup {OtherRow}
       \/ /\ rowA \in SepRows
          /\ rowB \in SepRows
    /\ recA = Unset /\ recB = Unset

NormalizeA ==
    /\ recA = Unset
    /\ recA' = _normalize_cdr_row(rowA)
    /\ UNCHANGED <<rowA, rowB, recB>>

NormalizeB ==
    /\ recB = Unset
    /\ recB' = _normalize_cdr_row(rowB)
    /\ UNCHANGED <<rowA, rowB, recA>>

----------------------------------------------------------------------------
(* SpecDedup: cdr_worker's cycle from the fetch on (lines 909-921), run by  *)
(* NumWorkers tasks that share seen_ids. What fetch_cdrs returns is any    *)
(* list of records, a record being known here by its id. A task runs from  *)
(* one await to the next without interruption (asyncio), so an action is   *)
(* the code between two suspension points.                                 *)

NumWorkers == 2
NumIds == 2
MaxFetch == 2

Workers == 1..NumWorkers
IdPool == {MakeId(ORANGE_EMAIL, IntToStr(n), "t") : n \in 1..NumIds}
FetchResults == UNION {[1..n -> IdPool] : n \in 0..MaxFetch}

DedupIdle ==
    /\ seen_ids = {}
    /\ wpc = [w \in Workers |-> "sleeping"]
    /\ cdrs = [w \in Workers |-> <<>>]
    /\ handed = [id \in IdPool |-> <<>>]
    /\ skipped = {}
    /\ undelivered = {}

\* line 913: cdr["id"] not in seen_ids, asked by worker w when the ids in
\* `seen` have been inserted
NotSeenOwn(w, id, seen) == \A i \in 1..Len(handed[id]) : handed[id][i] # w

NotSeenOrUndelivered(w, id, seen) == id \notin seen \/ id \in undelivered

NotSeen(w, id, seen) == id \notin seen

\* line 914: seen_ids.add(cdr["id"])
AddNothing(seen, id) == seen

Add(seen, id) == seen \cup {id}

\* The for loop of line 912 over `list`, run until its first await: the
\* records failing the test of line 913 are passed over; at the first one
\* that passes, the id is inserted and send_record_to_telegram is called,
\* which suspends the task in send_message; with no such record the task
\* reaches the sleep of line 921.
FirstNew(w, list) ==
    IF \E i \in 1..Len(list) : NotSeen(w, list[i], seen_ids)
    THEN CHOOSE i \in 1..Len(list) :
            /\ NotSeen(w, list[i], seen_ids)
            /\ \A j \in 1..(i - 1) : ~NotSeen(w, list[j], seen_ids)
    ELSE 0

RunLoop(w, list) ==
    LET k == FirstNew(w, list) IN
    IF k = 0
    THEN /\ wpc' = [wpc EXCEPT ![w] = "sleeping"]
         /\ cdrs' = [cdrs EXCEPT ![w] = <<>>]
         /\ skipped' = skipped \cup {list[j] : j \in 1..Len(list)}
         /\ UNCHANGED <<seen_ids, handed>>
    ELSE /\ seen_ids' = Add(seen_ids, list[k])
         /\ handed' = [handed EXCEPT ![list[k]] = Append(@, w)]
         /\ wpc' = [wpc EXCEPT ![w] = "sending"]
         /\ cdrs' = [cdrs EXCEPT ![w] = SubSeq(list, k, Len(list))]
         /\ skipped' = skipped \cup {list[j] : j \in 1..(k - 1)}

\* asyncio.sleep(POLL_INTERVAL) is over: the next iteration calls fetch_cdrs,
\* which suspends in its first request
WakeUp(w) ==
    /\ wpc[w] = "sleeping"
    /\ wpc' = [wpc EXCEPT ![w] = "fetching"]
    /\ UNCHANGED <<seen_ids, cdrs, handed, skipped, undelivered>>

\* cdrs = await session.fetch_cdrs() returns; the loop starts
FetchReturn(w) ==
    /\ wpc[w] = "fetching"
    /\ \E r \in FetchResults : RunLoop(w, r)
    /\ UNCHANGED undelivered

\* send_record_to_telegram returns, True (sent) or False (CHAT_ID is not
\* configured, or send_message raised and was logged): cdr_worker ignores the
\* result and the loop goes on with the next record
\* line 912: the records the for loop still has to visit when the send of
\* the first of `list` has returned `sent`
RestAfterFailedSend(list, sent) == IF sent THEN Tail(list) ELSE <<>>

RestAfterSend(list, sent) == Tail(list)

SendReturn(w) ==
    /\ wpc[w] = "sending"
    /\ \E sent \in BOOLEAN :
          /\ undelivered' = IF sent THEN undelivered
                            ELSE undelivered \cup {Head(cdrs[w])}
          /\ RunLoop(w, RestAfterSend(cdrs[w], sent))

----------------------------------------------------------------------------
(* Strings: substring test and lower().                                    *)

Contains(s, sub) ==
    \E i \in 1..(Len(s) - Len(sub) + 1) : SubSeq(s, i, i + Len(sub) - 1) = sub

StartsWith(s, p) == Len(s) >= Len(p) /\ SubSeq(s, 1, Len(p)) = p

Upper == "ABCDEFGHIJKLMNOPQRSTUVWXYZ"
Lower == "abcdefghijklmnopqrstuvwxyz"

LowerChar(c) ==
    IF \E i \in 1..Len(Upper) : SubSeq(Upper, i, i) = c
    THEN LET i == CHOOSE i \in 1..Len(Upper) : SubSeq(Upper, i, i) = c
         IN SubSeq(Lower, i, i)
    ELSE c

\* s.lower()
RECURSIVE PyLower(_)
PyLower(s) ==
    IF Len(s) = 0 THEN ""
    ELSE LowerChar(SubSeq(s, 1, 1)) \o PyLower(SubSeq(s, 2, Len(s)))

----------------------------------------------------------------------------
(* The portal's responses, _follow_redirect and login.                     *)

BASE_URL == "https://www.orangecarrier.com"
LOGIN_URL == BASE_URL \o "/login"

RedirectStatuses == {301, 302, 303, 307, 308}
max_redirects == 10

\* what the server may answer to a request of `url`: any status, with or
\* without a Location header, any of the documents
Statuses == {200, 302, 500}
Locations ==
    {PyNone, PyStrV("/login"), PyStrV("/dashboard"),
     PyStrV("/login?next=/logout")}
Texts == {"Dashboard", "Welcome", "Invalid credentials", "Password INCORRECT"}
Tokens == {PyNone, PyStrV(""), PyStrV("tok")}

\* a response: response.status_code, response.headers.get("location"),
\* str(response.url), response.text, and the value of the document's first
\* <input name="_token"> (None without one); the Location header of a
\* response that is no redirect is never read (line 120) and is left out
ServerResponses(url) ==
    {r \in [status : Statuses, location : Locations, url : {url},
            text : Texts, csrf : Tokens] :
        r.status \notin RedirectStatuses => r.location = PyNone}

\* the responses to the POST and to the requests that follow it: login reads
\* the token of the login page only (line 146), so theirs is left out
PostResponses(url) == {r \in ServerResponses(url) : r.csrf = PyNone}

\* the test of one iteration of the loop of _follow_redirect on the response
\* it holds, n iterations having run: range(max_redirects) is not exhausted,
\* the status is a redirect, and there is a non-empty Location
ShouldFollowUnbounded(resp, n) ==
    /\ resp.status \in RedirectStatuses
    /\ Truthy(resp.location)

ShouldFollow(resp, n) ==
    /\ n < max_redirects
    /\ resp.status \in RedirectStatuses
    /\ Truthy(resp.location)

\* if location.startswith("/"): location = BASE_URL + location
ResolveLocation(loc) == IF StartsWith(loc, "/") THEN BASE_URL \o loc ELSE loc

\* _extract_csrf_token: the value of the _token input if it has one that is
\* not empty
_extract_csrf_token(resp) == IF Truthy(resp.csrf) THEN resp.csrf ELSE PyNone

ORANGE_PASSWORD == "pw"

\* lines 151-153: payload = {"email": ..., "password": ...}, with "_token"
\* if token
PayloadAlwaysToken(email, password, tok) ==
    [email |-> email, password |-> password, _token |-> PyStr(tok)]

Payload(email, password, tok) ==
    IF Truthy(tok)
    THEN [email |-> email, password |-> password, _token |-> tok.s]
    ELSE [email |-> email, password |-> password]

\* login's Step 4: login_failed
LoginFailedByUrlOnly(final_url, final_html) ==
    Contains(final_url, "/login") /\ ~Contains(final_url, "logout")

LoginFailed(final_url, final_html) ==
    \/ Contains(final_url, "/login") /\ ~Contains(final_url, "logout")
    \/ Contains(PyLower(final_html), "invalid")
    \/ Contains(PyLower(final_html), "incorrect")

\* the last instant of the clock
MaxNow == 1

\* a datetime: the instant n of the clock
DateTime(n) == [k |-> "datetime", t |-> n]

\* initialize(): the client and its cookie jar are created when there is
\* no client, and kept otherwise; jar counts the jars the session has had
NewClient == [k |-> "client", jar |-> 1]

initialize(c) == IF c = PyNone THEN NewClient ELSE c

\* an authenticated session has logged in, so it has its client
ClientIdle == client = IF is_logged_in THEN NewClient ELSE PyNone

LoginIdle ==
    /\ lpc = "idle"
    /\ cur = Unset /\ hops = 0
    /\ lastResp = Unset /\ followed = Unset
    /\ token = PyNone /\ classified = Unset /\ login_result = Unset
    /\ payload = Unset
    /\ now = 0 /\ last_login_time = PyNone

\* time passes
Tick ==
    /\ now < MaxNow
    /\ now' = now + 1
    /\ UNCHANGED <<is_logged_in, lpc, cur, hops, lastResp, followed, token,
                   classified, login_result, payload, last_login_time>>

\* login is called: initialize(), then the request of the login page
LoginCall ==
    /\ lpc \in {"idle", "done"}
    /\ lpc' = "page_get"
    /\ cur' = Unset /\ hops' = 0
    /\ lastResp' = Unset /\ followed' = Unset
    /\ token' = PyNone /\ classified' = Unset /\ login_result' = Unset
    /\ payload' = Unset
    /\ client' = initialize(client)
    /\ UNCHANGED <<is_logged_in, now, last_login_time>>

\* line 209: self.is_logged_in = False
FlagKept(flag) == flag

FlagAfterError(flag) == FALSE

\* a request raises (transport error, timeout): the except of line 207
LoginExcept ==
    /\ lpc \in {"page_get", "page_follow", "post", "post_follow"}
    /\ lpc = "page_follow" \/ lpc = "post_follow" => ShouldFollow(cur, hops)
    /\ is_logged_in' = FlagAfterError(is_logged_in)
    /\ login_result' = FALSE
    /\ lpc' = "done"
    /\ cur' = Unset
    /\ UNCHANGED <<hops, lastResp, followed, token, classified, payload, now,
                   last_login_time>>

\* login_page = await self.client.get(LOGIN_URL) answers;
\* _follow_redirect(login_page) is entered
PageResponse ==
    /\ lpc = "page_get"
    /\ \E r \in ServerResponses(LOGIN_URL) :
          /\ cur' = r /\ lastResp' = r
    /\ hops' = 0
    /\ lpc' = "page_follow"
    /\ UNCHANGED <<is_logged_in, followed, token, classified, login_result,
                   payload, now, last_login_time>>

\* one iteration of the loop of _follow_redirect:
\* current = await self.client.get(location)
FollowHop ==
    /\ lpc \in {"page_follow", "post_follow"}
    /\ ShouldFollow(cur, hops)
    /\ \E r \in (IF lpc = "page_follow"
                THEN ServerResponses(ResolveLocation(cur.location.s))
                ELSE PostResponses(ResolveLocation(cur.location.s))) :
          /\ cur' = r /\ lastResp' = r
    /\ hops' = hops + 1
    /\ UNCHANGED <<is_logged_in, lpc, followed, token, classified,
                   login_result, payload, now, last_login_time>>

\* _follow_redirect(login_page) returns; the token is extracted and the
\* credentials are posted
PageFollowed ==
    /\ lpc = "page_follow"
    /\ ~ShouldFollow(cur, hops)
    /\ followed' = cur
    /\ token' = _extract_csrf_token(cur)
    /\ payload' = Payload(ORANGE_EMAIL, ORANGE_PASSWORD, token')
    /\ cur' = Unset
    /\ lpc' = "post"
    /\ UNCHANGED <<is_logged_in, hops, lastResp, classified, login_result,
                   now, last_login_time>>

\* Steps 3 and 4 of login on the final response
Classify(final) ==
    /\ classified' = final
    /\ IF LoginFailed(final.url, final.text)
       THEN /\ is_logged_in' = FALSE /\ login_result' = FALSE
            /\ UNCHANGED last_login_time
       ELSE /\ is_logged_in' = TRUE /\ login_result' = TRUE
            /\ last_login_time' = DateTime(now)
    /\ lpc' = "done"
    /\ UNCHANGED now

\* response = await self.client.post(LOGIN_URL, data=payload) answers with a
\* status that is no redirect: it is classified as it is, and nothing of the
\* _follow_redirect call on the login page is left
PostResponseFinal ==
    /\ lpc = "post"
    /\ \E r \in PostResponses(LOGIN_URL) :
          /\ r.status \notin RedirectStatuses
          /\ Classify(r)
    /\ hops' = 0
    /\ lastResp' = Unset /\ followed' = Unset
    /\ UNCHANGED <<cur, token, payload>>

\* the POST answers with a redirect: _follow_redirect(response) is entered
PostResponseRedirect ==
    /\ lpc = "post"
    /\ \E r \in PostResponses(LOGIN_URL) :
          /\ r.status \in RedirectStatuses
          /\ cur' = r /\ lastResp' = r
    /\ hops' = 0
    /\ followed' = Unset
    /\ lpc' = "post_follow"
    /\ UNCHANGED <<is_logged_in, token, classified, login_result, payload,
                   now, last_login_time>>

\* _follow_redirect(response) returns final_response, which is classified
PostFollowed ==
    /\ lpc = "post_follow"
    /\ ~ShouldFollow(cur, hops)
    /\ followed' = cur
    /\ Classify(cur)
    /\ cur' = Unset
    /\ UNCHANGED <<hops, lastResp, token, payload>>

----------------------------------------------------------------------------
(* fetch_cdrs: the structured endpoint, then the HTML page.                *)

CDR_PAGE == BASE_URL \o "/CDR/mycdrs"
CDR_API == BASE_URL \o "/CDR/mycdrs?start=0&length=50"

\* the rows the portal sends: a list-shaped row per call event, the same
\* event as a map-shaped row, and an element that is neither
WireRows ==
    {ListRow(<<PyStrV(IntToStr(n)), PyStrV("+1777"), PyStrV("t")>>) :
        n \in 1..NumIds}
    \cup {DictRow([cli |-> PyStrV("1"), time |-> PyStrV("t")]), OtherRow}
RowSeqs == UNION {[1..n -> WireRows] : n \in 0..MaxFetch}

\* a decoded JSON document: a list, a dict, or a scalar
JsonList(rows) == [t |-> "list", items |-> rows]
JsonDict(fields) == [t |-> "dict", fields |-> fields]
JsonScalar == [t |-> "scalar"]

\* a response body: text that is no JSON document, bytes that are no UTF-8
\* text, or a decoded document
NotJson == [json |-> FALSE]
NotUtf8 == [json |-> FALSE, utf8 |-> FALSE]
JsonBody(data) == [json |-> TRUE, data |-> data]

\* what api_resp.json() raises on a body (line 272): json.loads gets the
\* bytes of the body and raises UnicodeDecodeError when they are no UTF-8
\* text, JSONDecodeError when the text is no JSON document
JsonError(body) ==
    IF body.json THEN "none"
    ELSE IF body = NotUtf8 THEN "UnicodeDecodeError"
    ELSE "JSONDecodeError"

JsonBodies ==
    {NotJson, NotUtf8, JsonBody(JsonScalar),
     JsonBody(JsonDict([error |-> JsonScalar]))}
    \cup {JsonBody(JsonList(q)) : q \in RowSeqs}
    \cup {JsonBody(JsonDict([data |-> JsonList(q)])) : q \in RowSeqs}
    \cup {JsonBody(JsonDict([aaData |-> JsonList(q)])) : q \in RowSeqs}
    \cup {JsonBody(JsonDict([data |-> JsonScalar, aaData |-> JsonList(q)])) :
            q \in RowSeqs}

\* the bodies of a response that resolved to the login path, whose body
\* fetch_cdrs never reads (lines 260, 270): the login page or an array
LoginPathBodies ==
    {NotJson,
     JsonBody(JsonList(<<ListRow(<<PyStrV("1"), PyStrV("+1777"), PyStrV("t")>>)>>))}

\* the final response of the structured request, redirects followed
ApiResponses ==
    [status : Statuses, url : {CDR_API}, body : JsonBodies]
    \cup [status : Statuses, url : {LOGIN_URL}, body : LoginPathBodies]

\* data_array of _parse_cdr_json; None is [some |-> FALSE]
NoArray == [some |-> FALSE, items |-> <<>>]
SomeArray(items) == [some |-> TRUE, items |-> items]

IsListAt(d, key) == key \in DOMAIN d /\ d[key].t = "list"

DataArray(data) ==
    IF data.t = "dict"
    THEN IF IsListAt(data.fields, "data") THEN SomeArray(data.fields["data"].items)
         ELSE IF IsListAt(data.fields, "aaData")
              THEN SomeArray(data.fields["aaData"].items)
              ELSE NoArray
    ELSE IF data.t = "list" THEN SomeArray(data.items)
    ELSE NoArray

\* for row in data_array: record = _normalize_cdr_row(row); if record: append
RECURSIVE NormalizeAll(_)
NormalizeAll(rows) ==
    IF rows = <<>> THEN <<>>
    ELSE LET record == _normalize_cdr_row(Head(rows)) IN
         IF record = PyNone THEN NormalizeAll(Tail(rows))
         ELSE <<record>> \o NormalizeAll(Tail(rows))

_parse_cdr_json(data) ==
    LET data_array == DataArray(data) IN
    IF data_array.some /\ data_array.items # <<>>
    THEN NormalizeAll(data_array.items)
    ELSE <<>>

\* an HTML document: its tables in document order, a table being its rows
\* and a row its <td> cell texts (a header row of <th> cells has none)
HtmlField(cols, i) == IF Len(cols) > i THEN cols[i + 1] ELSE ""

HtmlRecordSwapped(cols) ==
    MakeRecord(HtmlField(cols, 0), HtmlField(cols, 2), HtmlField(cols, 1),
               HtmlField(cols, 3), HtmlField(cols, 4))

HtmlRecord(cols) ==
    MakeRecord(HtmlField(cols, 0), HtmlField(cols, 1), HtmlField(cols, 2),
               HtmlField(cols, 3), HtmlField(cols, 4))

RECURSIVE HtmlRows(_)
HtmlRows(trs) ==
    IF trs = <<>> THEN <<>>
    ELSE IF Head(trs) # <<>> THEN <<HtmlRecord(Head(trs))>> \o HtmlRows(Tail(trs))
    ELSE HtmlRows(Tail(trs))

_parse_cdr_html(doc) ==
    IF doc.tables = <<>> THEN <<>> ELSE HtmlRows(doc.tables[1])

MaxHtmlRows == 2

HtmlCells == {<<IntToStr(n), "+1777", "t">> : n \in 1..NumIds}
HtmlDocs ==
    {[tables |-> <<>>]}
    \cup {[tables |-> <<(<<(<<>>)>>) \o q>>] :
            q \in UNION {[1..n -> HtmlCells] : n \in 0..MaxHtmlRows}}

\* the final response of the request of CDR_PAGE, redirects followed; its
\* status is never read
HtmlResponses == [url : {CDR_PAGE, LOGIN_URL}, doc : HtmlDocs]

\* line 245: if not self.is_logged_in
NeedsLoginNever(flag) == FALSE

NeedsLogin(flag) == ~flag

\* line 260: redirected back to login
SessionExpiredNever(resp) == FALSE

SessionExpired(resp) == Contains(resp.url, "/login")

\* lines 270-279: the records of the structured response; none when the
\* status is not 200, the URL is the login path or the body is no JSON
ApiResults(resp) ==
    IF resp.status = 200 /\ ~Contains(resp.url, "/login") /\ resp.body.json
    THEN _parse_cdr_json(resp.body.data)
    ELSE <<>>

\* line 278: except json.JSONDecodeError; an exception of json() that it
\* does not catch goes to the except of line 296
EscapesParse(resp) ==
    /\ resp.status = 200 /\ ~Contains(resp.url, "/login")
    /\ JsonError(resp.body) \notin {"none", "JSONDecodeError"}

\* lines 296-299: except Exception, then return results
AfterFetchErrorRaise(pc) == "raised"

AfterFetchError(pc) == "returned"

\* line 274: if results: ... return results
ShortCircuitNever(res) == FALSE

ShortCircuit(res) == res # <<>>

\* lines 287-288
HtmlResults(resp) ==
    IF ~Contains(resp.url, "/login") THEN _parse_cdr_html(resp.doc) ELSE <<>>

FetchIdle ==
    /\ fpc = "idle"
    /\ api_resp = Unset /\ results = <<>>
    /\ n_login = 0 /\ n_api = 0 /\ n_html = 0

\* fetch_cdrs is called: it logs in first when the session is not
\* authenticated, and requests the structured endpoint otherwise
FetchCall ==
    /\ fpc \in {"idle", "returned"}
    /\ api_resp' = Unset /\ results' = <<>>
    /\ n_html' = 0
    /\ IF NeedsLogin(is_logged_in)
       THEN /\ fpc' = "login" /\ n_login' = 1 /\ n_api' = 0
            /\ client' = initialize(client)
       ELSE /\ fpc' = "api1" /\ n_login' = 0 /\ n_api' = 1
            /\ client' = client
    /\ UNCHANGED is_logged_in

\* login returns (lines 246-249, 263-266): False leaves the session
\* unauthenticated and fetch_cdrs returns []; True is followed by the (next)
\* structured request
FetchLoginReturn ==
    /\ fpc \in {"login", "relogin"}
    /\ \E ok \in BOOLEAN :
          /\ is_logged_in' = ok
          /\ IF ok
             THEN /\ fpc' = (IF fpc = "login" THEN "api1" ELSE "api2")
                  /\ n_api' = n_api + 1
             ELSE /\ fpc' = "returned"
                  /\ n_api' = n_api
    /\ UNCHANGED <<api_resp, results, n_login, n_html>>

\* lines 270-283 on the structured response: its records are returned if
\* there are any; if not, the HTML page is requested, unless json() raised
\* past the except of line 278
ApiDecide(resp) ==
    IF ShortCircuit(ApiResults(resp))
    THEN /\ results' = ApiResults(resp)
         /\ fpc' = "returned"
         /\ n_html' = n_html
    ELSE IF EscapesParse(resp)
    THEN /\ results' = <<>>
         /\ fpc' = AfterFetchError(fpc)
         /\ n_html' = n_html
    ELSE /\ results' = <<>>
         /\ fpc' = "html"
         /\ n_html' = n_html + 1

\* the first structured request, redirects followed, is answered: on the
\* login path the session is marked expired and login is called (260-263)
ApiResponse1 ==
    /\ fpc = "api1"
    /\ \E r \in ApiResponses :
          /\ api_resp' = r
          /\ IF SessionExpired(r)
             THEN /\ is_logged_in' = FALSE
                  /\ fpc' = "relogin"
                  /\ n_login' = n_login + 1
                  /\ client' = initialize(client)
                  /\ UNCHANGED <<results, n_html>>
             ELSE /\ ApiDecide(r)
                  /\ UNCHANGED <<is_logged_in, client, n_login>>
    /\ UNCHANGED n_api

\* the structured request made after the re-login is answered (267-268)
ApiResponse2 ==
    /\ fpc = "api2"
    /\ \E r \in ApiResponses :
          /\ api_resp' = r
          /\ ApiDecide(r)
    /\ UNCHANGED <<is_logged_in, n_login, n_api>>

\* the request of CDR_PAGE, redirects followed, is answered (283-299)
HtmlResponse ==
    /\ fpc = "html"
    /\ \E h \in HtmlResponses : results' = HtmlResults(h)
    /\ fpc' = "returned"
    /\ UNCHANGED <<is_logged_in, api_resp, n_login, n_api, n_html>>

\* a request of the try block raises: the except of line 296, return results
FetchExcept ==
    /\ fpc \in {"api1", "api2", "html"}
    /\ fpc' = AfterFetchError(fpc)
    /\ UNCHANGED <<is_logged_in, api_resp, results, n_login, n_api, n_html>>

----------------------------------------------------------------------------
(* SpecHtml: lines 287-288 of fetch_cdrs and _parse_cdr_html on the final  *)
(* response of the request of CDR_PAGE.                                    *)

\* a page: its tables in document order, and how the first row of the first
\* table is written: "th" is a header row of <th> cells (no <td>), "td" a
\* header row whose titles are <td> cells, "none" no header row; the rows
\* are those of the element _parse_cdr_html scans (the first <tbody>, or the
\* table without one)
TitleRow == <<"CLI", "To", "Time">>
LongHtmlRow == <<"9", "+1777", "t", "30", "answered", "more">>
PageRows ==
    HtmlCells \cup {SubSeq(LongHtmlRow, 1, n) : n \in 0..Len(LongHtmlRow)}
PageRowSeqs == UNION {[1..n -> PageRows] : n \in 0..MaxHtmlRows}
HeaderRows(header) ==
    IF header = "th" THEN <<(<<>>)>>
    ELSE IF header = "td" THEN <<TitleRow>>
    ELSE <<>>
OtherTable == <<(<<"7", "+1777", "t">>)>>

HtmlPages ==
    {[tables |-> <<>>, header |-> "none"]}
    \cup {[tables |-> <<HeaderRows(h) \o q>> \o more, header |-> h] :
            h \in {"th", "td", "none"}, q \in PageRowSeqs,
            more \in {<<>>, <<OtherTable>>}}

PageResponses == [url : {CDR_PAGE, LOGIN_URL}, doc : HtmlPages]

HtmlIdle == html_resp = Unset /\ html_records = Unset

InitHtml == html_resp \in PageResponses /\ html_records = Unset

\* results, once lines 287-288 have run
Parsed(recs) == [k |-> "list", items |-> recs]

\* lines 287-288 on the response
ParseHtml ==
    /\ html_records = Unset
    /\ html_records' = Parsed(HtmlResults(html_resp))
    /\ UNCHANGED html_resp

----------------------------------------------------------------------------
(* Spec: the cdr_worker task (worker 1 of Workers, the one task the        *)
(* program starts) beside the command handlers /login and /cdrs, which use *)
(* the same global session. A task runs from one await to the next; what   *)
(* the portal answers is drawn when the await returns. login is one await  *)
(* here (SpecLogin has its steps): it returns True with is_logged_in set   *)
(* or False with is_logged_in cleared. No exception escapes login,         *)
(* fetch_cdrs or send_record_to_telegram, so the except of line 917 has no *)
(* way in.                                                                 *)

MaxFailures == 12

max_failures == 5
backoff_floor == 60
backoff_ceiling == 3600

TheWorker == 1
Tasks == {"worker", "cmd"}

\* line 892: login_failures >= max_failures
ShouldBackOffLate(n) == n > max_failures

ShouldBackOff(n) == n >= max_failures

\* lines 892-903: the sleep that follows the n-th consecutive failed login
AfterFailureGiveUp(n) == IF ShouldBackOff(n) THEN "stopped" ELSE "retry"

AfterFailure(n) == IF ShouldBackOff(n) THEN "backoff" ELSE "retry"

\* line 899: min(backoff_time * 2, 3600)
BackoffNextUncapped(b) == b * 2

BackoffNextAdd(b) == MinOf(b + backoff_floor, backoff_ceiling)

BackoffNext(b) == MinOf(b * 2, backoff_ceiling)

\* the ids of a list of records
IdsOf(recs) == [i \in 1..Len(recs) |-> recs[i].id]

\* what a structured response and an HTML response come to for fetch_cdrs
ApiOutcomes ==
    {[expired |-> SessionExpired(r), res |-> IdsOf(ApiResults(r)),
      raised |-> EscapesParse(r)] : r \in ApiResponses}
HtmlOutcomes == {IdsOf(HtmlResults(h)) : h \in HtmlResponses}

WorkerIdle ==
    /\ login_failures = 0
    /\ backoff_time = backoff_floor
    /\ cpc = "idle"
    /\ ok_since_fail = FALSE
    /\ session_lost = FALSE

PcOf(t) == IF t = "cmd" THEN cpc ELSE wpc[TheWorker]

\* the positions at which a task is inside session.login
LoginPositions == {"login", "f_login", "relogin"}

\* task t moves to position q; nothing of the worker's loop changes; at a
\* position inside login, login has called initialize() (line 137)
Goto(t, q) ==
    /\ IF t = "cmd"
       THEN cpc' = q /\ UNCHANGED wpc
       ELSE wpc' = [wpc EXCEPT ![TheWorker] = q] /\ UNCHANGED cpc
    /\ client' = IF q \in LoginPositions THEN initialize(client) ELSE client
    /\ UNCHANGED <<seen_ids, cdrs, handed, skipped, undelivered>>

\* fetch_cdrs returns `ids` to task t: cdr_worker runs its loop over them
\* (line 912), cdrs_cmd replies (lines 722-740)
Return(t, ids) ==
    /\ IF t = "cmd"
       THEN cpc' = "idle" /\ UNCHANGED dedupVars
       ELSE RunLoop(TheWorker, ids) /\ UNCHANGED <<cpc, undelivered>>
    /\ UNCHANGED client

\* the loop of cdr_worker after a sleep of POLL_INTERVAL (line 921, or line
\* 902 and continue): login if the session is not authenticated (line 888),
\* fetch_cdrs if it is, which then goes straight to the structured request
WorkerWake ==
    /\ wpc[TheWorker] \in {"sleeping", "retry"}
    /\ Goto("worker", IF is_logged_in THEN "api1" ELSE "login")
    /\ session_lost' = FALSE
    /\ UNCHANGED <<is_logged_in, login_failures, backoff_time, ok_since_fail>>

\* session.login returns False to cdr_worker (lines 890-903)
WorkerLoginFailed ==
    /\ wpc[TheWorker] = "login"
    /\ login_failures < MaxFailures
    /\ is_logged_in' = FALSE
    /\ login_failures' = login_failures + 1
    /\ Goto("worker", AfterFailure(login_failures + 1))
    /\ ok_since_fail' = FALSE
    /\ UNCHANGED <<backoff_time, session_lost>>

\* session.login returns True to cdr_worker (lines 904-909): the counters
\* are reset and fetch_cdrs is called
WorkerLoginOk ==
    /\ wpc[TheWorker] = "login"
    /\ is_logged_in' = TRUE
    /\ login_failures' = 0
    /\ backoff_time' = backoff_floor
    /\ Goto("worker", "api1")
    /\ ok_since_fail' = TRUE
    /\ UNCHANGED session_lost

\* asyncio.sleep(backoff_time) is over (lines 898-902): the duration is
\* doubled and the sleep of POLL_INTERVAL begins
WorkerBackoffOver ==
    /\ wpc[TheWorker] = "backoff"
    /\ backoff_time' = BackoffNext(backoff_time)
    /\ Goto("worker", "retry")
    /\ UNCHANGED <<is_logged_in, login_failures, ok_since_fail, session_lost>>

\* /login: login_cmd calls session.login (line 836)
LoginCmd ==
    /\ cpc = "idle"
    /\ Goto("cmd", "login")
    /\ UNCHANGED <<is_logged_in, login_failures, backoff_time, ok_since_fail,
                   session_lost>>

\* session.login returns to login_cmd (lines 838-841)
LoginCmdReturn ==
    /\ cpc = "login"
    /\ \E ok \in BOOLEAN :
          /\ is_logged_in' = ok
          /\ ok_since_fail' = (ok \/ ok_since_fail)
    /\ Goto("cmd", "idle")
    /\ UNCHANGED <<login_failures, backoff_time, session_lost>>

\* /cdrs: cdrs_cmd calls session.fetch_cdrs (line 720), which logs in first
\* when the session is not authenticated (line 245)
CdrsCmd ==
    /\ cpc = "idle"
    /\ Goto("cmd", IF is_logged_in THEN "api1" ELSE "f_login")
    /\ UNCHANGED <<is_logged_in, login_failures, backoff_time, ok_since_fail,
                   session_lost>>

\* in fetch_cdrs of task t, login returns (lines 246-249 and 263-266)
TaskFetchLogin(t) ==
    /\ PcOf(t) \in {"f_login", "relogin"}
    /\ \E ok \in BOOLEAN :
          /\ is_logged_in' = ok
          /\ ok_since_fail' = (ok \/ ok_since_fail)
          /\ IF ok THEN Goto(t, IF PcOf(t) = "f_login" THEN "api1" ELSE "api2")
             ELSE Return(t, <<>>)
          /\ session_lost' = IF t = "worker" THEN PcOf(t) = "relogin" /\ ~ok
                              ELSE session_lost
    /\ UNCHANGED <<login_failures, backoff_time>>

\* in fetch_cdrs of task t, a structured request is answered (lines 256-283)
TaskFetchApi(t) ==
    /\ PcOf(t) \in {"api1", "api2"}
    /\ \E o \in ApiOutcomes :
          IF o.expired /\ PcOf(t) = "api1"
          THEN /\ is_logged_in' = FALSE
               /\ Goto(t, "relogin")
          ELSE /\ IF ShortCircuit(o.res) \/ o.raised THEN Return(t, o.res)
                  ELSE Goto(t, "html")
               /\ UNCHANGED is_logged_in
    /\ UNCHANGED <<login_failures, backoff_time, ok_since_fail, session_lost>>

\* in fetch_cdrs of task t, the request of CDR_PAGE is answered (283-299)
TaskFetchHtml(t) ==
    /\ PcOf(t) = "html"
    /\ \E ids \in HtmlOutcomes : Return(t, ids)
    /\ UNCHANGED <<is_logged_in, login_failures, backoff_time, ok_since_fail,
                   session_lost>>

\* in fetch_cdrs of task t, a request raises: the except of line 296
TaskFetchExcept(t) ==
    /\ PcOf(t) \in {"api1", "api2", "html"}
    /\ Return(t, <<>>)
    /\ UNCHANGED <<is_logged_in, login_failures, backoff_time, ok_since_fail,
                   session_lost>>

\* send_record_to_telegram returns to cdr_worker
WorkerSendReturn ==
    /\ SendReturn(TheWorker)
    /\ UNCHANGED <<is_logged_in, client, workerVars>>

\* The event loop resumes cdr_worker when what it awaits is over: a sleep
\* ends, a request is answered or times out (timeout=30.0, line 102).
WorkerStep ==
    /\ \/ WorkerWake
       \/ WorkerLoginFailed
       \/ WorkerLoginOk
       \/ WorkerBackoffOver
       \/ WorkerSendReturn
       \/ TaskFetchLogin("worker")
       \/ TaskFetchApi("worker")
       \/ TaskFetchHtml("worker")
       \/ TaskFetchExcept("worker")
    /\ UNCHANGED <<normVars, loginVars, fetchVars, htmlVars, cycleVars, adminVars>>

----------------------------------------------------------------------------
(* SpecCycle: the passes of the one cdr_worker task over what fetch_cdrs   *)
(* returns, with the ids it hands to send_record_to_telegram in a pass.    *)

CycleResults == UNION {[1..n -> IdPool] : n \in 0..(MaxFetch + 1)}

CycleIdle == fetched = <<>> /\ seen0 = {} /\ attempts = <<>>

\* the ids handed on so far, with the one the loop has just handed on
Attempted(sofar) ==
    IF wpc'[TheWorker] = "sending"
    THEN Append(sofar, Head(cdrs'[TheWorker]))
    ELSE sofar

CycleWake ==
    /\ WakeUp(TheWorker)
    /\ UNCHANGED cycleVars

\* cdrs = await session.fetch_cdrs() returns the records of `r`
CycleFetchReturn ==
    /\ wpc[TheWorker] = "fetching"
    /\ \E r \in CycleResults :
          /\ RunLoop(TheWorker, r)
          /\ fetched' = r
    /\ seen0' = seen_ids
    /\ attempts' = Attempted(<<>>)
    /\ UNCHANGED undelivered

CycleSendReturn ==
    /\ SendReturn(TheWorker)
    /\ attempts' = Attempted(attempts)
    /\ UNCHANGED <<fetched, seen0>>

----------------------------------------------------------------------------
(* SpecAdmin: /addadmin and /removeadmin from any user. A handler runs     *)
(* from its test of is_admin to the change of admin_users without an await *)
(* between them.                                                           *)

NumUsers == 2

Users == 0..NumUsers
OwnerIds == {PyNone} \cup {PyIntV(u) : u \in Users}

\* context.args: nothing, a user id, or a text that is no number
ArgTexts == {IntToStr(u) : u \in Users} \cup {"abc"}
Args == {<<>>} \cup {<<a>> : a \in ArgTexts}

\* int(context.args[0]); ValueError is [ok |-> FALSE]
int(text) ==
    IF \E u \in Users : IntToStr(u) = text
    THEN [ok |-> TRUE, n |-> CHOOSE u \in Users : IntToStr(u) = text]
    ELSE [ok |-> FALSE]

AdminIdle == admin_users = {} /\ OWNER_ID = PyNone /\ last_cmd = Unset

\* lines 45, 67, 78-79: if OWNER_ID: admin_users.add(OWNER_ID)
InitAdmin ==
    /\ OWNER_ID \in OwnerIds
    /\ admin_users = IF Truthy(OWNER_ID) THEN {OWNER_ID.n} ELSE {}
    /\ last_cmd = Unset

is_admin(user_id) == PyIntV(user_id) = OWNER_ID \/ user_id \in admin_users

\* line 796: if remove_id == OWNER_ID
RemoveRefusedNever(remove_id) == FALSE

RemoveRefused(remove_id) == PyIntV(remove_id) = OWNER_ID

Command(cmd, user_id, args) == [cmd |-> cmd, user |-> user_id, args |-> args]

addadmin_cmd(user_id, args) ==
    /\ IF ~is_admin(user_id) \/ args = <<>> \/ ~int(args[1]).ok
       THEN UNCHANGED admin_users
       ELSE admin_users' = admin_users \cup {int(args[1]).n}
    /\ last_cmd' = Command("addadmin", user_id, args)
    /\ UNCHANGED OWNER_ID

removeadmin_cmd(user_id, args) ==
    /\ IF ~is_admin(user_id) \/ args = <<>> \/ ~int(args[1]).ok
       THEN UNCHANGED admin_users
       ELSE IF RemoveRefused(int(args[1]).n)
       THEN UNCHANGED admin_users
       ELSE admin_users' = admin_users \ {int(args[1]).n}
    /\ last_cmd' = Command("removeadmin", user_id, args)
    /\ UNCHANGED OWNER_ID

----------------------------------------------------------------------------
(* The claims.                                                             *)

\* C1 (dedup exactly-once): over any sequence of poll cycles, an id is
\* handed to send_record_to_telegram exactly once if it has passed the
\* seen_ids gate and never otherwise; an occurrence is passed over only when
\* the id has been handed on before.
C1_ExactlyOnce ==
    \A id \in IdPool :
        /\ Len(handed[id]) = (IF id \in seen_ids THEN 1 ELSE 0)
        /\ id \in skipped => Len(handed[id]) = 1

\* C1 witness: an id was handed on once and a later occurrence of it was
\* filtered, the worker that handed it on having finished its cycle
C1_Witness ==
    \E id \in IdPool :
        /\ Len(handed[id]) = 1
        /\ id \in skipped
        /\ wpc[handed[id][1]] = "sleeping"

\* C2 (atomic check-and-insert): two worker tasks never both decide to emit
\* the same id.
C2_NoDoubleDecision ==
    \A id \in IdPool :
        \A i, j \in 1..Len(handed[id]) : handed[id][i] = handed[id][j]

\* C2 witness: a worker is suspended in the delivery of an id it has just
\* inserted, and meanwhile another worker met the same id and passed it over
C2_Witness ==
    \E id \in IdPool, w \in Workers :
        /\ handed[id] = <<w>>
        /\ wpc[w] = "sending" /\ Head(cdrs[w]) = id
        /\ id \in skipped

\* C3 (idempotent identity): a list-shaped row and a map-shaped row with the
\* same field values get the same id.
C3_SameIdBothShapes ==
    (/\ rowA.shape = "list" /\ rowB.shape = "dict"
     /\ rowB.fields \in EquivalentMaps(rowA.items)
     /\ recA # Unset /\ recB # Unset)
        => recA.id = recB.id

\* C9 (redirect bound): _follow_redirect issues at most 10 follow-up
\* requests, cannot issue another one after the 10th, and what it returns is
\* the last response it obtained.
C9_RedirectBound ==
    /\ hops <= 10
    /\ hops >= 10 => ~ENABLED FollowHop
    /\ followed # Unset => followed = lastResp

\* C9 witness: a chain that still redirects after 10 follow-up requests was
\* cut there, and the 10th response was returned
C9_Witness ==
    /\ followed # Unset
    /\ hops = 10
    /\ followed.status \in RedirectStatuses
    /\ Truthy(followed.location)

\* C10 (no classification of a redirect): the response login classifies never
\* has a redirect status.
C10_ClassifiedNotRedirect ==
    classified # Unset => classified.status \notin RedirectStatuses

\* the body of the structured response is a non-empty parseable array
NonEmptyArrayBody(resp) ==
    /\ resp.body.json
    /\ resp.body.data.t = "list"
    /\ resp.body.data.items # <<>>

C5_ResetOnAnySuccess ==
    [][(login_failures' = login_failures + 1 /\ ok_since_fail)
          => (login_failures = 0 /\ backoff_time = backoff_floor)]_vars

\* C6: while cdr_worker sleeps its backoff after the k-th consecutive failed
\* login, k >= 5 and the duration is min(60 * 2^(k - 5), 3600); the duration
\* is always within [60, 3600], and the backoff taken doubles it up to 3600.
C6_BackoffFormula ==
    /\ backoff_time >= backoff_floor /\ backoff_time <= backoff_ceiling
    /\ wpc[TheWorker] = "backoff" =>
          /\ login_failures >= max_failures
          /\ backoff_time =
                MinOf(backoff_floor * 2 ^ (login_failures - max_failures),
                      backoff_ceiling)
          /\ ENABLED WorkerBackoffOver

C6_Witness ==
    /\ wpc[TheWorker] = "backoff"
    /\ login_failures = 11
    /\ backoff_time = backoff_ceiling

\* C7 as stated: the backoff slept on the 6th consecutive failure is 60 and
\* on the 7th 120.
C7_ScheduleFromSixth ==
    wpc[TheWorker] = "backoff" =>
        /\ login_failures = 6 => backoff_time = 60
        /\ login_failures = 7 => backoff_time = 120

\* C7 amended: the backoff slept on the 5th consecutive failure is 60, on
\* the 6th 120 and on the 7th 240.
C7_ScheduleFromFifth ==
    wpc[TheWorker] = "backoff" =>
        /\ login_failures = 5 => backoff_time = 60
        /\ login_failures = 6 => backoff_time = 120
        /\ login_failures = 7 => backoff_time = 240

C7_Witness ==
    /\ wpc[TheWorker] = "backoff"
    /\ login_failures = 7
    /\ backoff_time = 240

\* C8: a failed login of cdr_worker that brings the count to less than 5 is
\* followed by the sleep of the poll interval only, one that brings it to 5
\* or more by the backoff sleep; the backoff sleep begins in no other way,
\* and the sleep of the poll interval ends in the next pass of the loop.
C8_Threshold ==
    [][/\ login_failures' = login_failures + 1 =>
             IF login_failures' < 5
             THEN wpc'[TheWorker] = "retry"
             ELSE wpc'[TheWorker] = "backoff"
       /\ (wpc'[TheWorker] = "backoff" /\ wpc[TheWorker] # "backoff") =>
             (login_failures' = login_failures + 1 /\ login_failures' >= 5)
       /\ (wpc[TheWorker] = "retry" /\ wpc'[TheWorker] # "retry") =>
             wpc'[TheWorker] \in {"login", "api1"}]_vars

C8_Witness ==
    /\ wpc[TheWorker] = "retry"
    /\ login_failures = 4
    /\ backoff_time = backoff_floor
    /\ ~is_logged_in

\* C11: the step in which login classifies its final response returns False
\* exactly when (the final URL contains "/login" and not "logout") or the
\* body, lowercased, contains "invalid" or "incorrect"; otherwise it returns
\* True with is_logged_in set and last_login_time the time of the clock.
C11_Classification ==
    [][(lpc # "done" /\ lpc' = "done" /\ classified' # Unset) =>
          LET url == classified'.url
              body == PyLower(classified'.text)
              failure ==
                  \/ Contains(url, "/login") /\ ~Contains(url, "logout")
                  \/ Contains(body, "invalid")
                  \/ Contains(body, "incorrect")
          IN  /\ login_result' = ~failure
              /\ ~failure => /\ is_logged_in'
                             /\ last_login_time' = DateTime(now)]_vars

C11_Witness ==
    /\ lpc = "done"
    /\ login_result = TRUE
    /\ is_logged_in
    /\ Contains(classified.url, "/login")
    /\ Contains(classified.url, "logout")
    /\ classified.text = "Welcome"
    /\ now = 1
    /\ last_login_time = DateTime(1)

\* C12: in the step in which login returns False, after a classified failure
\* or after a request raised, is_logged_in is false afterwards whatever it
\* was before, and login has returned a value (not raised).
C12_FailureClearsFlag ==
    [][(lpc # "done" /\ lpc' = "done" /\ login_result' # TRUE) =>
          /\ login_result' = FALSE
          /\ is_logged_in' = FALSE]_vars

C12_Witness ==
    /\ lpc = "done"
    /\ login_result = FALSE
    /\ classified = Unset
    /\ followed # Unset
    /\ is_logged_in = FALSE
    /\ last_login_time # PyNone

\* C13: in fetch_cdrs, a first structured response on the login path marks
\* the session unauthenticated and is followed by one login and no request;
\* when that login succeeds the structured request is made once more and no
\* login follows, whatever it answers; when it fails fetch_cdrs returns []
\* with no further request.
C13_ExpiryHandling ==
    [][/\ (fpc = "api1" /\ api_resp' # Unset
              /\ Contains(api_resp'.url, "/login")) =>
             /\ is_logged_in' = FALSE
             /\ fpc' = "relogin"
             /\ n_login' = n_login + 1
             /\ n_api' = 1 /\ n_html' = 0
       /\ fpc = "relogin" =>
             IF is_logged_in'
             THEN fpc' = "api2" /\ n_api' = 2 /\ n_login' = n_login
                  /\ n_html' = 0
             ELSE fpc' = "returned" /\ results' = <<>> /\ n_api' = 1
                  /\ n_login' = n_login /\ n_html' = 0
       /\ fpc = "api2" =>
             /\ fpc' \in {"html", "returned"}
             /\ n_login' = n_login /\ n_api' = 2
             /\ UNCHANGED is_logged_in]_vars

C13_Witness ==
    /\ fpc = "returned"
    /\ n_api = 2 /\ n_login = 1 /\ n_html = 0
    /\ results # <<>>
    /\ is_logged_in

\* C14: fetch_cdrs called on a session that is not authenticated calls login
\* first, with no request made; when that login fails it returns [] with no
\* request to the structured endpoint or the HTML page.
C14_LoginFirst ==
    [][/\ (fpc \in {"idle", "returned"} /\ fpc' \notin {"idle", "returned"}
              /\ ~is_logged_in) =>
             fpc' = "login" /\ n_login' = 1 /\ n_api' = 0 /\ n_html' = 0
       /\ (fpc = "login" /\ ~is_logged_in') =>
             /\ fpc' = "returned" /\ results' = <<>>
             /\ n_api' = 0 /\ n_html' = 0]_vars

C14_Witness ==
    /\ fpc = "returned"
    /\ n_login = 1 /\ n_api = 0 /\ n_html = 0
    /\ results = <<>>
    /\ ~is_logged_in

\* C15: when the re-login inside cdr_worker's fetch_cdrs fails, the session
\* is unauthenticated as fetch_cdrs returns, and the pass of the loop that
\* follows begins with a login attempt.
C15_LoginAfterSessionLoss ==
    [][/\ (~session_lost /\ session_lost') => ~is_logged_in'
       /\ (session_lost /\ wpc[TheWorker] = "sleeping"
              /\ wpc'[TheWorker] # "sleeping") =>
             wpc'[TheWorker] = "login"]_vars

\* C16: cdr_worker always has a next step, and it begins another pass of its
\* loop again and again, whatever login, fetch_cdrs and
\* send_record_to_telegram come to.
C16_AlwaysAnotherPass ==
    /\ [](ENABLED WorkerStep)
    /\ []<><<WorkerWake>>_vars

C16_Witness ==
    /\ wpc[TheWorker] = "login"
    /\ login_failures = MaxFailures
    /\ backoff_time = backoff_ceiling
    /\ seen_ids # {}

InFetch(pc) == pc \in {"f_login", "api1", "relogin", "api2", "html"}

\* C17: no command handler is ever inside login or fetch_cdrs of the
\* session, and is_logged_in changes in steps of cdr_worker only.
C17_SessionOwnedByWorker ==
    /\ [](cpc = "idle")
    /\ [][is_logged_in' # is_logged_in => UNCHANGED cpc]_vars

\* C18: no two executions of fetch_cdrs on the session are in progress at
\* the same time.
C18_NoOverlappingFetch ==
    ~(InFetch(wpc[TheWorker]) /\ InFetch(cpc))

\* C19: no step takes an id out of seen_ids; the id of a record whose send
\* returned False stays in seen_ids and the record has been handed to
\* send_record_to_telegram once, by whatever worker and in whatever cycle.
C19_AppendOnlyBestEffort ==
    /\ [][seen_ids \subseteq seen_ids']_vars
    /\ [](\A id \in undelivered : id \in seen_ids /\ Len(handed[id]) = 1)

C19_Witness ==
    \E id \in undelivered :
        /\ id \in skipped
        /\ Len(handed[id]) = 1
        /\ \A w \in Workers : wpc[w] = "sleeping"

\* C20: for a map-shaped row, each field of the record is str() of the value
\* of the first candidate key, in order, that is present and not None, an
\* empty string or a zero included, and "" when there is no such key.
C20_FirstNonNullKey ==
    LET FirstNonNull(d, keys) ==
            LET found == {i \in 1..Len(keys) :
                             keys[i] \in DOMAIN d /\ d[keys[i]] # PyNone}
            IN  IF found = {} THEN ""
                ELSE PyStr(d[keys[CHOOSE i \in found :
                                      \A j \in found : i <= j]])
    IN  (recB # Unset /\ rowB.shape = "dict") =>
            /\ recB.cli = FirstNonNull(rowB.fields, CallerKeys)
            /\ recB.to = FirstNonNull(rowB.fields, CalleeKeys)
            /\ recB.time = FirstNonNull(rowB.fields, TimeKeys)
            /\ recB.duration = FirstNonNull(rowB.fields, DurationKeys)
            /\ recB.type = FirstNonNull(rowB.fields, TypeKeys)

\* C21: the id of a normalized record is its account, caller and time joined
\* by "|"; the example row gets id a@x.com|+1555|2024-01-01T10:00:00 with
\* caller +1555 and callee +1777.
C21_IdJoinedByBar ==
    /\ (recB # Unset /\ recB # PyNone) =>
          recB.id = recB.account \o "|" \o recB.cli \o "|" \o recB.time
    /\ (recB # Unset /\ rowB = ExampleRow) =>
          /\ recB.id = "a@x.com|+1555|2024-01-01T10:00:00"
          /\ recB.cli = "+1555"
          /\ recB.to = "+1777"

\* C22: a list-shaped row of any length gives a record whose caller, callee,
\* time, duration and type are str() of positions 0..4, "" for a position
\* the row does not have; a row that is neither list nor map gives no
\* record; _normalize_cdr_row always returns.
C22_ListAndOtherRows ==
    /\ recA = Unset => ENABLED NormalizeA
    /\ recB = Unset => ENABLED NormalizeB
    /\ (recA # Unset /\ rowA.shape = "list") =>
          LET at(i) == IF i < Len(rowA.items) THEN PyStr(rowA.items[i + 1])
                       ELSE ""
          IN  /\ recA.cli = at(0)
              /\ recA.to = at(1)
              /\ recA.time = at(2)
              /\ recA.duration = at(3)
              /\ recA.type = at(4)
    /\ (recA # Unset /\ rowA.shape = "other") => recA = PyNone
    /\ (recB # Unset /\ rowB.shape = "other") => recB = PyNone

C22_Witness ==
    /\ rowA.shape = "list"
    /\ Len(rowA.items) = MaxListLen
    /\ recA # Unset
    /\ recA.duration = "30" /\ recA.type = "+1555"
    /\ rowB = OtherRow
    /\ recB = PyNone

DifferInDurationOnly ==
    /\ rowA.shape = "list" /\ rowB.shape = "list"
    /\ Len(rowA.items) = Len(rowB.items)
    /\ Len(rowA.items) >= 4
    /\ \A i \in 1..Len(rowA.items) : (rowA.items[i] # rowB.items[i]) <=> i = 4

\* C23: two rows that differ in the call duration only normalize to the same
\* id, so once the first is in seen_ids the second fails the test of the
\* worker's loop.
C23_SameIdAcrossDurations ==
    (recA # Unset /\ recB # Unset /\ DifferInDurationOnly) =>
        /\ recA.duration # recB.duration
        /\ recA.id = recB.id
        /\ ~NotSeen(TheWorker, recB.id, Add(seen_ids, recA.id))

C23_Witness ==
    /\ recA # Unset /\ recB # Unset
    /\ DifferInDurationOnly
    /\ Len(rowA.items) = 5
    /\ recA.duration = "30" /\ recB.duration = "+1555"

\* C28: two records that differ in caller or time (the account is the same)
\* have different ids, whatever the field values.
C28_IdInjective ==
    (recA # Unset /\ recB # Unset /\ recA # PyNone /\ recB # PyNone
        /\ <<recA.cli, recA.time>> # <<recB.cli, recB.time>>) =>
        recA.id # recB.id

\* the rows the claim takes from a decoded body: those of a top-level list,
\* or of the list under data, or of the list under aaData
RowsByShape(data) ==
    IF data.t = "list" THEN data.items
    ELSE IF data.t = "dict" /\ IsListAt(data.fields, "data")
         THEN data.fields["data"].items
    ELSE IF data.t = "dict" /\ IsListAt(data.fields, "aaData")
         THEN data.fields["aaData"].items
    ELSE <<>>

\* the structured request of fetch_cdrs is answered, off the login path and
\* with status 200: the body is handed to json() and _parse_cdr_json
StructuredBodyRead ==
    /\ fpc \in {"api1", "api2"}
    /\ api_resp' # api_resp
    /\ api_resp'.status = 200
    /\ ~SessionExpired(api_resp')

\* C24: the records of a structured body are those of its top-level list, or
\* of the list under data, or of the list under aaData; a body of another
\* shape, or one json() cannot parse, gives none, raises nothing, and the
\* HTML page is requested next.
C24_BodyShapes ==
    [][StructuredBodyRead =>
         LET body == api_resp'.body
             rows == IF body.json THEN NormalizeAll(RowsByShape(body.data))
                     ELSE <<>>
         IN  IF rows # <<>>
             THEN results' = rows /\ fpc' = "returned"
             ELSE results' = <<>> /\ fpc' = "html" /\ n_html' = n_html + 1]_vars

\* the rows of the first table of a page that are no header row
DataRows(doc) ==
    IF doc.tables = <<>> THEN <<>>
    ELSE IF doc.header = "none" THEN doc.tables[1]
    ELSE Tail(doc.tables[1])

RECURSIVE OneRecordPerRow(_)
OneRecordPerRow(trs) ==
    IF trs = <<>> THEN <<>>
    ELSE IF Len(Head(trs)) >= 1
         THEN <<HtmlRecord(Head(trs))>> \o OneRecordPerRow(Tail(trs))
         ELSE OneRecordPerRow(Tail(trs))

\* C25: off the login path the records of the HTML page are those of the
\* rows of its first table, the header row left out, one record per row
\* that has a cell, in row order with the cells by position; on the login
\* path there are none.
C25_HtmlFallback ==
    html_records # Unset =>
        IF Contains(html_resp.url, "/login")
        THEN html_records.items = <<>>
        ELSE html_records.items = OneRecordPerRow(DataRows(html_resp.doc))

\* C26: a step that marks the session expired leaves the client and its
\* cookie jar as they are, and the login attempt cdr_worker makes after
\* max_failures consecutive failed logins runs on a fresh cookie jar.
C26_JarResetAfterFailures ==
    [][/\ (is_logged_in /\ ~is_logged_in') => client' = client
       /\ (wpc'[TheWorker] = "login" /\ wpc[TheWorker] # "login"
             /\ ShouldBackOff(login_failures)) =>
               client'.jar > client.jar]_vars

\* C27: the credentials are posted whatever _extract_csrf_token found; the
\* payload has no _token without a non-empty value in the login page, and
\* that value as _token otherwise; the verdict is that of Step 4 either way.
C27_CsrfTolerance ==
    /\ lpc \in {"post", "post_follow"} <=> (payload # Unset /\ lpc # "done")
    /\ payload # Unset =>
          /\ payload.email = ORANGE_EMAIL
          /\ payload.password = ORANGE_PASSWORD
          /\ IF token = PyNone
             THEN DOMAIN payload = {"email", "password"}
             ELSE /\ DOMAIN payload = {"email", "password", "_token"}
                  /\ payload._token = token.s
    /\ lpc = "post" =>
          (token = PyNone <=> followed.csrf \in {PyNone, PyStrV("")})
          /\ (token # PyNone => token = followed.csrf)
    /\ (lpc = "done" /\ classified # Unset) =>
          (login_result <=> ~LoginFailed(classified.url, classified.text))

C27_Witness ==
    /\ lpc = "done"
    /\ login_result = TRUE
    /\ payload # Unset
    /\ "_token" \notin DOMAIN payload

\* the ids of `list` that are not in `seen`, each once, in the order of
\* their first occurrence
RECURSIVE NewInOrder(_, _)
NewInOrder(list, seen) ==
    IF list = <<>> THEN <<>>
    ELSE IF Head(list) \in seen THEN NewInOrder(Tail(list), seen)
    ELSE <<Head(list)>> \o NewInOrder(Tail(list), seen \cup {Head(list)})

IsPrefix(p, q) == Len(p) <= Len(q) /\ SubSeq(q, 1, Len(p)) = p

\* C29: when a pass of cdr_worker reaches its sleep, every id the fetch
\* returned is in seen_ids and the ids handed to send_record_to_telegram in
\* the pass are the new ones, once each, in fetch order, whatever the sends
\* returned; an id is in seen_ids when it is handed on.
C29_CycleComplete ==
    /\ wpc[TheWorker] = "sending" =>
          /\ Head(cdrs[TheWorker]) \in seen_ids
          /\ attempts # <<>>
          /\ attempts[Len(attempts)] = Head(cdrs[TheWorker])
    /\ wpc[TheWorker] \in {"sending", "sleeping"} =>
          IsPrefix(attempts, NewInOrder(fetched, seen0))
    /\ wpc[TheWorker] = "sleeping" =>
          /\ \A i \in 1..Len(fetched) : fetched[i] \in seen_ids
          /\ attempts = NewInOrder(fetched, seen0)

C29_Witness ==
    /\ wpc[TheWorker] = "sleeping"
    /\ Len(fetched) = 3
    /\ Len(attempts) = 2
    /\ attempts[1] \in undelivered
    /\ attempts[2] \notin undelivered

\* C30: a call of fetch_cdrs makes at most 2 logins, 2 requests of the
\* structured endpoint and 1 request of the HTML page, and it raises
\* nothing: from every position inside the call the next answer, or the
\* error of a request, takes it on.
C30_BoundedFetch ==
    /\ n_login <= 2 /\ n_api <= 2 /\ n_html <= 1
    /\ fpc \in {"idle", "login", "api1", "relogin", "api2", "html", "returned"}
    /\ fpc \in {"login", "relogin"} => ENABLED FetchLoginReturn
    /\ fpc = "api1" => ENABLED ApiResponse1
    /\ fpc = "api2" => ENABLED ApiResponse2
    /\ fpc = "html" => ENABLED HtmlResponse

C30_Witness ==
    /\ fpc = "returned"
    /\ n_login = 2 /\ n_api = 2 /\ n_html = 1

\* the list-shaped row with the cell texts of an HTML row
ListOfCells(cols) == ListRow([i \in 1..Len(cols) |-> PyStrV(cols[i])])

\* the rows of the scanned element that have a cell
RECURSIVE RowsWithCells(_)
RowsWithCells(trs) ==
    IF trs = <<>> THEN <<>>
    ELSE IF Head(trs) # <<>> THEN <<Head(trs)>> \o RowsWithCells(Tail(trs))
    ELSE RowsWithCells(Tail(trs))

\* C31: the record _parse_cdr_html makes of a table row with at least one
\* cell is the record _normalize_cdr_row makes of the list of its cell
\* texts, field by field, so the id of the one fails the test of the
\* worker's loop once the id of the other is in seen_ids.
C31_SameRecordBothPaths ==
    (html_records # Unset /\ ~Contains(html_resp.url, "/login")
        /\ html_resp.doc.tables # <<>>) =>
        LET rows == RowsWithCells(html_resp.doc.tables[1]) IN
        /\ Len(html_records.items) = Len(rows)
        /\ \A i \in 1..Len(rows) :
              LET viaHtml == html_records.items[i]
                  viaList == _normalize_cdr_row(ListOfCells(rows[i]))
              IN  /\ viaHtml = viaList
                  /\ ~NotSeen(TheWorker, viaHtml.id, Add(seen_ids, viaList.id))
                  /\ ~NotSeen(TheWorker, viaList.id, Add(seen_ids, viaHtml.id))

C31_Witness ==
    /\ html_records # Unset
    /\ Len(html_records.items) = 2
    /\ html_records.items[1].cli = "9" /\ html_records.items[1].to = ""
    /\ html_records.items[2].type = "answered"

\* C32: admin_users changes only in a step of /addadmin or /removeadmin
\* whose sender is the owner or in admin_users when the step begins; a
\* configured owner passes is_admin in every state, is in admin_users from
\* the start when its id is not 0, and is never taken out of admin_users.
C32_AdminIntegrity ==
    /\ [][admin_users' # admin_users =>
            /\ last_cmd'.cmd \in {"addadmin", "removeadmin"}
            /\ \/ PyIntV(last_cmd'.user) = OWNER_ID
               \/ last_cmd'.user \in admin_users]_vars
    /\ [][(OWNER_ID # PyNone /\ OWNER_ID.n \in admin_users) =>
            OWNER_ID.n \in admin_users']_vars
    /\ [](OWNER_ID # PyNone => is_admin(OWNER_ID.n))
    /\ [](Truthy(OWNER_ID) => OWNER_ID.n \in admin_users)

C32_Witness ==
    /\ OWNER_ID = PyIntV(1)
    /\ last_cmd = Command("removeadmin", 2, <<"1">>)
    /\ admin_users = {1, 2}

----------------------------------------------------------------------------
(* The specifications.                                                     *)

InitN ==
    InitNorm /\ DedupIdle /\ is_logged_in = FALSE /\ LoginIdle /\ FetchIdle
    /\ WorkerIdle /\ ClientIdle /\ HtmlIdle /\ CycleIdle /\ AdminIdle
NextNorm ==
    \/ NormalizeA /\ UNCHANGED <<dedupVars, is_logged_in, client, loginVars, fetchVars, workerVars, htmlVars, cycleVars, adminVars>>
    \/ NormalizeB /\ UNCHANGED <<dedupVars, is_logged_in, client, loginVars, fetchVars, workerVars, htmlVars, cycleVars, adminVars>>
SpecNorm == InitN /\ [][NextNorm]_vars

InitD ==
    NormIdle /\ DedupIdle /\ is_logged_in = FALSE /\ LoginIdle /\ FetchIdle
    /\ WorkerIdle /\ ClientIdle /\ HtmlIdle /\ CycleIdle /\ AdminIdle
NextDedup ==
    \/ \E w \in Workers : WakeUp(w) /\ UNCHANGED <<normVars, is_logged_in, client, loginVars, fetchVars, workerVars, htmlVars, cycleVars, adminVars>>
    \/ \E w \in Workers : FetchReturn(w) /\ UNCHANGED <<normVars, is_logged_in, client, loginVars, fetchVars, workerVars, htmlVars, cycleVars, adminVars>>
    \/ \E w \in Workers : SendReturn(w) /\ UNCHANGED <<normVars, is_logged_in, client, loginVars, fetchVars, workerVars, htmlVars, cycleVars, adminVars>>
SpecDedup == InitD /\ [][NextDedup]_vars

InitL ==
    NormIdle /\ DedupIdle /\ is_logged_in \in BOOLEAN /\ LoginIdle /\ FetchIdle
    /\ WorkerIdle /\ ClientIdle /\ HtmlIdle /\ CycleIdle /\ AdminIdle
NextLogin ==
    \/ LoginCall /\ UNCHANGED <<normVars, dedupVars, fetchVars, workerVars, htmlVars, cycleVars, adminVars>>
    \/ LoginExcept /\ UNCHANGED <<normVars, dedupVars, client, fetchVars, workerVars, htmlVars, cycleVars, adminVars>>
    \/ PageResponse /\ UNCHANGED <<normVars, dedupVars, client, fetchVars, workerVars, htmlVars, cycleVars, adminVars>>
    \/ FollowHop /\ UNCHANGED <<normVars, dedupVars, client, fetchVars, workerVars, htmlVars, cycleVars, adminVars>>
    \/ PageFollowed /\ UNCHANGED <<normVars, dedupVars, client, fetchVars, workerVars, htmlVars, cycleVars, adminVars>>
    \/ PostResponseFinal /\ UNCHANGED <<normVars, dedupVars, client, fetchVars, workerVars, htmlVars, cycleVars, adminVars>>
    \/ PostResponseRedirect /\ UNCHANGED <<normVars, dedupVars, client, fetchVars, workerVars, htmlVars, cycleVars, adminVars>>
    \/ PostFollowed /\ UNCHANGED <<normVars, dedupVars, client, fetchVars, workerVars, htmlVars, cycleVars, adminVars>>
    \/ Tick /\ UNCHANGED <<normVars, dedupVars, client, fetchVars, workerVars, htmlVars, cycleVars, adminVars>>
SpecLogin == InitL /\ [][NextLogin]_vars

InitF ==
    NormIdle /\ DedupIdle /\ is_logged_in \in BOOLEAN /\ LoginIdle /\ FetchIdle
    /\ WorkerIdle /\ ClientIdle /\ HtmlIdle /\ CycleIdle /\ AdminIdle
NextFetch ==
    \/ FetchCall /\ UNCHANGED <<normVars, dedupVars, loginVars, workerVars, htmlVars, cycleVars, adminVars>>
    \/ FetchLoginReturn /\ UNCHANGED <<normVars, dedupVars, client, loginVars, workerVars, htmlVars, cycleVars, adminVars>>
    \/ ApiResponse1 /\ UNCHANGED <<normVars, dedupVars, loginVars, workerVars, htmlVars, cycleVars, adminVars>>
    \/ ApiResponse2 /\ UNCHANGED <<normVars, dedupVars, client, loginVars, workerVars, htmlVars, cycleVars, adminVars>>
    \/ HtmlResponse /\ UNCHANGED <<normVars, dedupVars, client, loginVars, workerVars, htmlVars, cycleVars, adminVars>>
    \/ FetchExcept /\ UNCHANGED <<normVars, dedupVars, client, loginVars, workerVars, htmlVars, cycleVars, adminVars>>
SpecFetch == InitF /\ [][NextFetch]_vars

InitH ==
    NormIdle /\ DedupIdle /\ is_logged_in = FALSE /\ LoginIdle /\ FetchIdle
    /\ WorkerIdle /\ ClientIdle /\ InitHtml /\ CycleIdle /\ AdminIdle
NextHtml ==
    \/ ParseHtml /\ UNCHANGED <<normVars, dedupVars, is_logged_in, client, loginVars, fetchVars, workerVars, cycleVars, adminVars>>
SpecHtml == InitH /\ [][NextHtml]_vars

InitC ==
    NormIdle /\ DedupIdle /\ is_logged_in = FALSE /\ LoginIdle /\ FetchIdle
    /\ WorkerIdle /\ ClientIdle /\ HtmlIdle /\ CycleIdle /\ AdminIdle
NextCycle ==
    \/ CycleWake /\ UNCHANGED <<normVars, is_logged_in, client, loginVars, fetchVars, workerVars, htmlVars, adminVars>>
    \/ CycleFetchReturn /\ UNCHANGED <<normVars, is_logged_in, client, loginVars, fetchVars, workerVars, htmlVars, adminVars>>
    \/ CycleSendReturn /\ UNCHANGED <<normVars, is_logged_in, client, loginVars, fetchVars, workerVars, htmlVars, adminVars>>
SpecCycle == InitC /\ [][NextCycle]_vars

InitA ==
    NormIdle /\ DedupIdle /\ is_logged_in = FALSE /\ LoginIdle /\ FetchIdle
    /\ WorkerIdle /\ ClientIdle /\ HtmlIdle /\ CycleIdle /\ InitAdmin
NextAdmin ==
    \/ \E u \in Users, a \in Args : addadmin_cmd(u, a) /\ UNCHANGED <<normVars, dedupVars, is_logged_in, client, loginVars, fetchVars, workerVars, htmlVars, cycleVars>>
    \/ \E u \in Users, a \in Args : removeadmin_cmd(u, a) /\ UNCHANGED <<normVars, dedupVars, is_logged_in, client, loginVars, fetchVars, workerVars, htmlVars, cycleVars>>
SpecAdmin == InitA /\ [][NextAdmin]_vars

Init ==
    NormIdle /\ DedupIdle /\ is_logged_in = FALSE /\ LoginIdle /\ FetchIdle
    /\ WorkerIdle /\ ClientIdle /\ HtmlIdle /\ CycleIdle /\ AdminIdle
Next ==
    \/ WorkerWake /\ UNCHANGED <<normVars, loginVars, fetchVars, htmlVars, cycleVars, adminVars>>
    \/ WorkerLoginFailed /\ UNCHANGED <<normVars, loginVars, fetchVars, htmlVars, cycleVars, adminVars>>
    \/ WorkerLoginOk /\ UNCHANGED <<normVars, loginVars, fetchVars, htmlVars, cycleVars, adminVars>>
    \/ WorkerBackoffOver /\ UNCHANGED <<normVars, loginVars, fetchVars, htmlVars, cycleVars, adminVars>>
    \/ WorkerSendReturn /\ UNCHANGED <<normVars, loginVars, fetchVars, htmlVars, cycleVars, adminVars>>
    \/ LoginCmd /\ UNCHANGED <<normVars, loginVars, fetchVars, htmlVars, cycleVars, adminVars>>
    \/ LoginCmdReturn /\ UNCHANGED <<normVars, loginVars, fetchVars, htmlVars, cycleVars, adminVars>>
    \/ CdrsCmd /\ UNCHANGED <<normVars, loginVars, fetchVars, htmlVars, cycleVars, adminVars>>
    \/ \E t \in Tasks : TaskFetchLogin(t) /\ UNCHANGED <<normVars, loginVars, fetchVars, htmlVars, cycleVars, adminVars>>
    \/ \E t \in Tasks : TaskFetchApi(t) /\ UNCHANGED <<normVars, loginVars, fetchVars, htmlVars, cycleVars, adminVars>>
    \/ \E t \in Tasks : TaskFetchHtml(t) /\ UNCHANGED <<normVars, loginVars, fetchVars, htmlVars, cycleVars, adminVars>>
    \/ \E t \in Tasks : TaskFetchExcept(t) /\ UNCHANGED <<normVars, loginVars, fetchVars, htmlVars, cycleVars, adminVars>>
Spec == Init /\ [][Next]_vars

SpecLive == Spec /\ WF_vars(WorkerStep)

====
